---- MODULE Spec2Model ----
(***************************************************************************)
(* Model of the fetch gateway of yt-transcript (server.py): the SQLite     *)
(* transcript cache, the global _fetch_lock / _last_fetch_ts throttle, the *)
(* transcript file writer and the /transcript handler, run by several      *)
(* concurrent requests (FastAPI runs the sync handler in a thread pool).   *)
(***************************************************************************)
EXTENDS FiniteSets, Integers, Sequences, TLC

(* ------------------------------ bounds --------------------------------- *)
NumReqs == 2       \* concurrent requests (threads of the handler)
NumTexts == 2      \* distinct transcript texts the upstream may return
MaxTicks == 3      \* clock ticks explored after the process started

(* ------------------------ program constants ---------------------------- *)
MIN_SECONDS_BETWEEN_FETCHES == 8
MaxFilenameLen == 128

Reqs == 1..NumReqs
Texts == 1..NumTexts

\* The clock is observed every half interval. time.time() is the Unix time:
\* at start it is beyond the interval, so the first fetch never waits.
TickSeconds == MIN_SECONDS_BETWEEN_FETCHES \div 2
StartTime == MIN_SECONDS_BETWEEN_FETCHES
MaxTime == StartTime + MaxTicks * TickSeconds

(* Strings are sequences of one-character strings. *)
Shorts == <<"s", "h", "o", "r", "t", "s">>
Embed == <<"e", "m", "b", "e", "d">>
Watch == <<"w", "a", "t", "c", "h">>
YoutuBe == <<"y", "o", "u", "t", "u", ".", "b", "e">>
HostWatch == <<"w", "w", "w", ".", "y", "o", "u", "t", "u", "b", "e", ".",
               "c", "o", "m">>
HostMobile == <<"m", ".">> \o YoutuBe
VidA == <<"a">>
VidB == <<"b", "!">>
EmptyStr == << >>

(* Requests the model issues: Req.url after urlparse (netloc, path segments *)
(* between "/", values of the query parameter v), Req.video_id, no_cache.   *)
UrlNone == [netloc |-> EmptyStr, path |-> << >>, v |-> << >>]
UrlShort == [netloc |-> YoutuBe, path |-> <<VidA>>, v |-> << >>]
UrlMobile == [netloc |-> HostMobile, path |-> <<VidA>>, v |-> << >>]
UrlWatch == [netloc |-> HostWatch, path |-> <<Watch>>, v |-> <<VidB>>]
UrlShorts == [netloc |-> HostWatch, path |-> <<Shorts, VidA>>, v |-> << >>]
UrlEmbedBare == [netloc |-> HostWatch, path |-> <<Embed>>, v |-> << >>]
Urls == {UrlNone, UrlShort, UrlMobile, UrlWatch, UrlShorts, UrlEmbedBare}
VideoIdInputs == {EmptyStr, VidA, VidB}

NoRow == [present |-> FALSE, text |-> 0, created_at |-> 0]
NoFile == [present |-> FALSE, text |-> << >>]
NoResponse == [status |-> 0, video_id |-> EmptyStr, text |-> 0, cached |-> FALSE]

VARIABLES
    now,            \* wall clock, time.time()
    lastFetchTs,    \* _last_fetch_ts
    fetchLock,      \* _fetch_lock: 0 when free, else the request holding it
    transcripts,    \* table transcripts of cache.sqlite3, by video_id
    files,          \* files of log/transcripts, by file name
    pc,             \* position of each request in transcript()
    vid,            \* local video_id of each request
    noCache,        \* req.no_cache of each request
    text,           \* local text of each request
    wakeAt,         \* end of the time.sleep(wait) of each request
    fileOpen,       \* each request: inside "with open(out_path, "w") as f"
    response,       \* what each request returned (status 200 / 400)
    err,            \* the exception that ended a request in the except clause
    lookup,         \* history: outcome of the cache lookup of each request
    gateCount,      \* history: times each request acquired _fetch_lock
    writeCount,     \* history: cache writes committed by each request
    calls           \* history: upstream calls in the order they began, each
                    \* with its start, its outcome and its end

vars == <<now, lastFetchTs, fetchLock, transcripts, files, pc, vid, noCache,
          text, wakeAt, fileOpen, response, err, lookup, gateCount, writeCount,
          calls>>

(* ------------------------- pure functions ------------------------------ *)

\* "youtu.be" in p.netloc: the host name occurs somewhere in netloc
HasShortHost(netloc) ==
    \E i \in 1..Len(netloc) :
        /\ i + Len(YoutuBe) - 1 <= Len(netloc)
        /\ SubSeq(netloc, i, i + Len(YoutuBe) - 1) = YoutuBe

RECURSIVE FindAfterMarker(_, _)
\* the loop over enumerate(parts): index of the id after "shorts"/"embed", or 0
FindAfterMarker(parts, i) ==
    IF i > Len(parts) THEN 0
    ELSE IF parts[i] \in {Shorts, Embed} /\ i + 1 <= Len(parts) THEN i + 1
    ELSE FindAfterMarker(parts, i + 1)

\* extract_video_id: [ok, value]; ok = FALSE is the ValueError
extract_video_id(url) ==
    IF HasShortHost(url.netloc) /\ Len(url.path) > 0 /\ url.path[1] # EmptyStr
    THEN [ok |-> TRUE, value |-> url.path[1]]
    ELSE IF Len(url.v) > 0
    THEN [ok |-> TRUE, value |-> url.v[1]]
    ELSE IF FindAfterMarker(url.path, 1) # 0
    THEN [ok |-> TRUE, value |-> url.path[FindAfterMarker(url.path, 1)]]
    ELSE [ok |-> FALSE, value |-> EmptyStr]

\* req.video_id or extract_video_id(input_url)
ResolveVideoId(video_id, url) ==
    IF video_id # EmptyStr THEN [ok |-> TRUE, value |-> video_id]
    ELSE extract_video_id(url)

\* c.isalnum() or c in ("-", "_"), over the characters the model uses
IsSafeChar(c) == c \in {"a", "b", "c", "d", "e", "h", "k", "m", "n", "o", "r",
                        "s", "t", "u", "w", "y", "-", "_"}

RECURSIVE KeepSafe(_)
KeepSafe(s) ==
    IF s = << >> THEN << >>
    ELSE IF IsSafeChar(Head(s)) THEN <<Head(s)>> \o KeepSafe(Tail(s))
    ELSE KeepSafe(Tail(s))

Unknown == <<"u", "n", "k", "n", "o", "w", "n">>

_safe_video_filename(video_id) ==
    LET kept == KeepSafe(video_id)
        safe_id == IF Len(kept) > MaxFilenameLen
                   THEN SubSeq(kept, 1, MaxFilenameLen) ELSE kept
    IN  IF safe_id = << >> THEN Unknown ELSE safe_id

VideoIds == {r.value : r \in {x \in {ResolveVideoId(v, u) :
                                     v \in VideoIdInputs, u \in Urls} : x.ok}}
FileNames == {_safe_video_filename(k) : k \in VideoIds}

Max(a, b) == IF a >= b THEN a ELSE b

\* the characters of transcript text t as f.write(text or "") writes them:
\* the model's texts differ in length (text t is t characters long), and
\* the "no text" 0 is the empty string
Content(t) == [i \in 1..t |-> t]

(* ----------------------------- initial state --------------------------- *)

\* cache.sqlite3 and log/transcripts outlive the process: at start they are
\* empty, or hold what an earlier run stored for a video
EarlierRow == [present |-> TRUE, text |-> 1,
               created_at |-> StartTime - TickSeconds]
EarlierFile == [present |-> TRUE, text |-> Content(1)]
DurableStates ==
    {[rows |-> [k \in VideoIds |-> NoRow],
      logs |-> [f \in FileNames |-> NoFile]],
     [rows |-> [k \in VideoIds |-> IF k = VidA THEN EarlierRow ELSE NoRow],
      logs |-> [f \in FileNames |->
                   IF f = _safe_video_filename(VidA) THEN EarlierFile
                   ELSE NoFile]]}

Init ==
    /\ now = StartTime
    /\ lastFetchTs = 0
    /\ fetchLock = 0
    /\ \E d \in DurableStates : transcripts = d.rows /\ files = d.logs
    /\ pc = [r \in Reqs |-> "idle"]
    /\ vid = [r \in Reqs |-> EmptyStr]
    /\ noCache = [r \in Reqs |-> FALSE]
    /\ text = [r \in Reqs |-> 0]
    /\ wakeAt = [r \in Reqs |-> 0]
    /\ fileOpen = [r \in Reqs |-> FALSE]
    /\ response = [r \in Reqs |-> NoResponse]
    /\ err = [r \in Reqs |-> "none"]
    /\ lookup = [r \in Reqs |-> "none"]
    /\ gateCount = [r \in Reqs |-> 0]
    /\ writeCount = [r \in Reqs |-> 0]
    /\ calls = << >>

(* ------------------------------ helpers -------------------------------- *)

\* the except clause of transcript(): HTTPException(status_code=400)
Raise(r, e) ==
    /\ pc' = [pc EXCEPT ![r] = "failed"]
    /\ text' = [text EXCEPT ![r] = 0]
    /\ fileOpen' = [fileOpen EXCEPT ![r] = FALSE]
    /\ err' = [err EXCEPT ![r] = e]
    /\ response' = [response EXCEPT ![r] =
                       [status |-> 400, video_id |-> EmptyStr, text |-> 0,
                        cached |-> FALSE]]

\* return {"video_id": video_id, "text": text, "cached": ...}
Return(r, txt, cached) ==
    /\ pc' = [pc EXCEPT ![r] = "done"]
    /\ text' = [text EXCEPT ![r] = 0]
    /\ fileOpen' = [fileOpen EXCEPT ![r] = FALSE]
    /\ response' = [response EXCEPT ![r] =
                       [status |-> 200, video_id |-> vid[r], text |-> txt,
                        cached |-> cached]]

\* open(out_path, "w"), line 140: the file is created or cut to length 0
TruncatedFiles(video_id) ==
    [files EXCEPT ![_safe_video_filename(video_id)] =
                      [present |-> TRUE, text |-> << >>]]

\* f.write(...) and the close of the with block, lines 140-141: the
\* characters go to the file from offset 0 of this file object, over what
\* the file holds by then; what lies beyond them stays
WrittenFiles(video_id, chars) ==
    LET f == _safe_video_filename(video_id)
        old == files[f].text
    IN  [files EXCEPT ![f] =
            [present |-> TRUE,
             text |-> chars \o SubSeq(old, Len(chars) + 1, Len(old))]]

\* Upserted as INSERT OR IGNORE: a row that exists is kept as it is
UpsertedKeepingExisting(video_id, txt, ts) ==
    IF transcripts[video_id].present THEN transcripts
    ELSE [transcripts EXCEPT ![video_id] =
                          [present |-> TRUE, text |-> txt, created_at |-> ts]]

\* INSERT OR REPLACE INTO transcripts(video_id, text, created_at)
Upserted(video_id, txt, ts) ==
    [transcripts EXCEPT ![video_id] =
                     [present |-> TRUE, text |-> txt, created_at |-> ts]]

\* the values time.time() took from time a to time b
ClockReadings(a, b) == {t \in a..b : (t - StartTime) % TickSeconds = 0}

\* index in calls of the upstream call of request r (0: none)
CallOf(r) ==
    IF \E i \in 1..Len(calls) : calls[i].req = r
    THEN CHOOSE i \in 1..Len(calls) : calls[i].req = r
    ELSE 0

(* ------------------------------ actions -------------------------------- *)

\* Start stamping the throttle before the video id is resolved
StartStampingThrottle(r, video_id, url, no_cache) ==
    /\ pc[r] = "idle"
    /\ \A q \in Reqs : q < r => pc[q] # "idle"
    /\ lastFetchTs' = now
    /\ LET res == ResolveVideoId(video_id, url) IN
        IF res.ok
        THEN /\ vid' = [vid EXCEPT ![r] = res.value]
             /\ noCache' = [noCache EXCEPT ![r] = no_cache]
             /\ pc' = [pc EXCEPT ![r] = IF no_cache THEN "gate" ELSE "lookup"]
             /\ lookup' = [lookup EXCEPT ![r] =
                              IF no_cache THEN "skipped" ELSE "none"]
             /\ UNCHANGED <<err, response, text, fileOpen>>
        ELSE /\ Raise(r, "ValueError")
             /\ UNCHANGED <<vid, noCache, lookup>>
    /\ UNCHANGED <<now, fetchLock, transcripts, files,
                   wakeAt, gateCount, writeCount, calls>>

\* Start with the no_cache flag ignored at line 179: every request looks up
StartIgnoringNoCache(r, video_id, url, no_cache) ==
    /\ pc[r] = "idle"
    /\ \A q \in Reqs : q < r => pc[q] # "idle"
    /\ LET res == ResolveVideoId(video_id, url) IN
        IF res.ok
        THEN /\ vid' = [vid EXCEPT ![r] = res.value]
             /\ noCache' = [noCache EXCEPT ![r] = no_cache]
             /\ pc' = [pc EXCEPT ![r] = "lookup"]
             /\ UNCHANGED <<err, response, text, fileOpen, lookup>>
        ELSE /\ Raise(r, "ValueError")
             /\ UNCHANGED <<vid, noCache, lookup>>
    /\ UNCHANGED <<now, lastFetchTs, fetchLock, transcripts, files,
                   wakeAt, gateCount, writeCount, calls>>

\* transcript(), lines 172-179: resolve the video id, branch on no_cache
\* (requests are numbered in their order of arrival)
Start(r, video_id, url, no_cache) ==
    /\ pc[r] = "idle"
    /\ \A q \in Reqs : q < r => pc[q] # "idle"
    /\ LET res == ResolveVideoId(video_id, url) IN
        IF res.ok
        THEN /\ vid' = [vid EXCEPT ![r] = res.value]
             /\ noCache' = [noCache EXCEPT ![r] = no_cache]
             /\ pc' = [pc EXCEPT ![r] = IF no_cache THEN "gate" ELSE "lookup"]
             /\ lookup' = [lookup EXCEPT ![r] =
                              IF no_cache THEN "skipped" ELSE "none"]
             /\ UNCHANGED <<err, response, text, fileOpen>>
        ELSE /\ Raise(r, "ValueError")
             /\ UNCHANGED <<vid, noCache, lookup>>
    /\ UNCHANGED <<now, lastFetchTs, fetchLock, transcripts, files,
                   wakeAt, gateCount, writeCount, calls>>

\* CacheLookup without the return of line 192: a hit falls through to the
\* fetch
CacheLookupFallingThrough(r) ==
    /\ pc[r] = "lookup"
    /\ LET row == transcripts[vid[r]] IN
        IF row.present
        THEN /\ text' = [text EXCEPT ![r] = row.text]
             /\ pc' = [pc EXCEPT ![r] = "gate"]
             /\ lookup' = [lookup EXCEPT ![r] = "hit"]
        ELSE /\ pc' = [pc EXCEPT ![r] = "gate"]
             /\ lookup' = [lookup EXCEPT ![r] = "miss"]
             /\ UNCHANGED text
    /\ UNCHANGED <<fileOpen, now, lastFetchTs, fetchLock, transcripts, files, vid,
                   noCache, wakeAt, response, err, gateCount, writeCount, calls>>

\* lines 180-184: SELECT text FROM transcripts WHERE video_id = ?
CacheLookup(r) ==
    /\ pc[r] = "lookup"
    /\ LET row == transcripts[vid[r]] IN
        IF row.present
        THEN /\ text' = [text EXCEPT ![r] = row.text]
             /\ pc' = [pc EXCEPT ![r] = "hit"]
             /\ lookup' = [lookup EXCEPT ![r] = "hit"]
        ELSE /\ pc' = [pc EXCEPT ![r] = "gate"]
             /\ lookup' = [lookup EXCEPT ![r] = "miss"]
             /\ UNCHANGED text
    /\ UNCHANGED <<fileOpen, now, lastFetchTs, fetchLock, transcripts, files, vid,
                   noCache, wakeAt, response, err, gateCount, writeCount, calls>>

\* lines 180-182 raising sqlite3.Error: caught by the except clause, line 215
CacheLookupError(r) ==
    /\ pc[r] = "lookup"
    /\ lookup' = [lookup EXCEPT ![r] = "error"]
    /\ Raise(r, "StorageError")
    /\ UNCHANGED <<now, lastFetchTs, fetchLock, transcripts, files, vid,
                   noCache, wakeAt, gateCount, writeCount, calls>>

\* ReturnCached with an empty with block: nothing is written to the file
ReturnCachedSkippingFile(r) ==
    /\ pc[r] = "hit"
    /\ fileOpen[r]
    /\ Return(r, text[r], TRUE)
    /\ UNCHANGED <<now, lastFetchTs, fetchLock, transcripts, files, vid,
                   noCache, wakeAt, err, lookup, gateCount, writeCount, calls>>

\* ReturnCached taking _fetch_lock for the file write: it waits for the gate
ReturnCachedUnderLock(r) ==
    /\ pc[r] = "hit"
    /\ fileOpen[r]
    /\ fetchLock = 0
    /\ files' = WrittenFiles(vid[r], Content(text[r]))
    /\ Return(r, text[r], TRUE)
    /\ UNCHANGED <<now, lastFetchTs, fetchLock, transcripts, vid, noCache,
                   wakeAt, err, lookup, gateCount, writeCount, calls>>

\* line 140 reached from line 185 (hit) or line 206 (fresh): open(out_path,
\* "w") creates or truncates the file of the video; nothing is written yet
OpenFile(r) ==
    /\ pc[r] \in {"hit", "sink"}
    /\ ~fileOpen[r]
    /\ files' = TruncatedFiles(vid[r])
    /\ fileOpen' = [fileOpen EXCEPT ![r] = TRUE]
    /\ UNCHANGED <<now, lastFetchTs, fetchLock, transcripts, pc, vid, noCache,
                   text, wakeAt, response, err, lookup, gateCount, writeCount,
                   calls>>

\* lines 141, 186-192: cache hit, the text is written and the file closed,
\* return cached=True
ReturnCached(r) ==
    /\ pc[r] = "hit"
    /\ fileOpen[r]
    /\ files' = WrittenFiles(vid[r], Content(text[r]))
    /\ Return(r, text[r], TRUE)
    /\ UNCHANGED <<now, lastFetchTs, fetchLock, transcripts, vid, noCache,
                   wakeAt, err, lookup, gateCount, writeCount, calls>>

\* Acquire without the lock: the wait is computed with no mutual exclusion
AcquireWithoutLock(r) ==
    /\ pc[r] = "gate"
    /\ fetchLock' = r
    /\ LET wait == MIN_SECONDS_BETWEEN_FETCHES - (now - lastFetchTs) IN
        wakeAt' = [wakeAt EXCEPT ![r] = now + Max(wait, 0)]
    /\ pc' = [pc EXCEPT ![r] = "wait"]
    /\ gateCount' = [gateCount EXCEPT ![r] = @ + 1]
    /\ UNCHANGED <<fileOpen, now, lastFetchTs, transcripts, files, vid, noCache, text,
                   response, err, lookup, writeCount, calls>>

\* Acquire with single-flight coalescing: after getting the gate the request
\* looks the key up again and serves the row another request stored meanwhile
AcquireRecheckingCache(r) ==
    /\ pc[r] = "gate"
    /\ fetchLock = 0
    /\ IF ~noCache[r] /\ transcripts[vid[r]].present
        THEN /\ text' = [text EXCEPT ![r] = transcripts[vid[r]].text]
             /\ pc' = [pc EXCEPT ![r] = "hit"]
             /\ UNCHANGED <<fetchLock, wakeAt>>
        ELSE /\ fetchLock' = r
             /\ LET wait == MIN_SECONDS_BETWEEN_FETCHES - (now - lastFetchTs) IN
                 wakeAt' = [wakeAt EXCEPT ![r] = now + Max(wait, 0)]
             /\ pc' = [pc EXCEPT ![r] = "wait"]
             /\ UNCHANGED text
    /\ gateCount' = [gateCount EXCEPT ![r] = @ + 1]
    /\ UNCHANGED <<fileOpen, now, lastFetchTs, transcripts, files, vid, noCache,
                   response, err, lookup, writeCount, calls>>

\* lines 151-155: acquire _fetch_lock, read the clock, compute the wait
Acquire(r) ==
    /\ pc[r] = "gate"
    /\ fetchLock = 0
    /\ fetchLock' = r
    /\ LET wait == MIN_SECONDS_BETWEEN_FETCHES - (now - lastFetchTs) IN
        wakeAt' = [wakeAt EXCEPT ![r] = now + Max(wait, 0)]
    /\ pc' = [pc EXCEPT ![r] = "wait"]
    /\ gateCount' = [gateCount EXCEPT ![r] = @ + 1]
    /\ UNCHANGED <<fileOpen, now, lastFetchTs, transcripts, files, vid, noCache, text,
                   response, err, lookup, writeCount, calls>>

\* lines 155-160: time.sleep(wait) is over, the upstream call begins
BeginCall(r) ==
    /\ pc[r] = "wait"
    /\ now >= wakeAt[r]
    /\ calls' = Append(calls, [req |-> r, video_id |-> vid[r], start |-> now,
                               status |-> "running", text |-> 0, end |-> 0])
    /\ pc' = [pc EXCEPT ![r] = "upstream"]
    /\ UNCHANGED <<fileOpen, now, lastFetchTs, fetchLock, transcripts, files, vid,
                   noCache, text, wakeAt, response, err, lookup, gateCount,
                   writeCount>>

\* UpstreamOk recording the time the call began instead of the time it
\* returned
UpstreamOkStampingStart(r, t) ==
    /\ pc[r] = "upstream"
    /\ text' = [text EXCEPT ![r] = t]
    /\ lastFetchTs' = calls[CallOf(r)].start
    /\ fetchLock' = 0
    /\ calls' = [calls EXCEPT ![CallOf(r)].status = "ok",
                              ![CallOf(r)].text = t,
                              ![CallOf(r)].end = now]
    /\ pc' = [pc EXCEPT ![r] = "store"]
    /\ wakeAt' = [wakeAt EXCEPT ![r] = 0]
    /\ UNCHANGED <<fileOpen, now, transcripts, files, vid, noCache, response,
                   err, lookup, gateCount, writeCount>>

\* lines 160-167: the upstream call returns t; record the time, release
UpstreamOk(r, t) ==
    /\ pc[r] = "upstream"
    /\ text' = [text EXCEPT ![r] = t]
    /\ lastFetchTs' = now
    /\ fetchLock' = 0
    /\ calls' = [calls EXCEPT ![CallOf(r)].status = "ok",
                              ![CallOf(r)].text = t,
                              ![CallOf(r)].end = now]
    /\ pc' = [pc EXCEPT ![r] = "store"]
    /\ wakeAt' = [wakeAt EXCEPT ![r] = 0]
    /\ UNCHANGED <<fileOpen, now, transcripts, files, vid, noCache, response,
                   err, lookup, gateCount, writeCount>>

\* UpstreamFail leaving _fetch_lock held: acquire() with no release on the
\* exception path instead of the with block
UpstreamFailKeepingLock(r) ==
    /\ pc[r] = "upstream"
    /\ calls' = [calls EXCEPT ![CallOf(r)].status = "failed",
                              ![CallOf(r)].end = now]
    /\ Raise(r, "FetchError")
    /\ wakeAt' = [wakeAt EXCEPT ![r] = 0]
    /\ UNCHANGED <<now, lastFetchTs, fetchLock, transcripts, files, vid,
                   noCache, lookup, gateCount, writeCount>>

\* UpstreamFail caching the failure: an empty row is stored for the video
UpstreamFailCachingError(r) ==
    /\ pc[r] = "upstream"
    /\ fetchLock' = 0
    /\ calls' = [calls EXCEPT ![CallOf(r)].status = "failed",
                              ![CallOf(r)].end = now]
    /\ transcripts' = Upserted(vid[r], 0, now)
    /\ Raise(r, "FetchError")
    /\ wakeAt' = [wakeAt EXCEPT ![r] = 0]
    /\ UNCHANGED <<now, lastFetchTs, files, vid, noCache,
                   lookup, gateCount, writeCount>>

\* lines 160-162 raising: the with block releases the lock, line 166 is
\* not reached, the except clause of transcript() answers 400
UpstreamFail(r) ==
    /\ pc[r] = "upstream"
    /\ fetchLock' = 0
    /\ calls' = [calls EXCEPT ![CallOf(r)].status = "failed",
                              ![CallOf(r)].end = now]
    /\ Raise(r, "FetchError")
    /\ wakeAt' = [wakeAt EXCEPT ![r] = 0]
    /\ UNCHANGED <<now, lastFetchTs, transcripts, files, vid, noCache,
                   lookup, gateCount, writeCount>>

\* lines 198-204: int(time.time()) is evaluated first, then INSERT OR
\* REPLACE and commit run (the INSERT may wait for another writer): the row
\* gets a clock reading taken between the end of the upstream call and the
\* commit
CacheWrite(r) ==
    /\ pc[r] = "store"
    /\ \E ts \in ClockReadings(calls[CallOf(r)].end, now) :
           transcripts' = Upserted(vid[r], text[r], ts)
    /\ writeCount' = [writeCount EXCEPT ![r] = @ + 1]
    /\ pc' = [pc EXCEPT ![r] = "sink"]
    /\ UNCHANGED <<now, lastFetchTs, fetchLock, files, vid, noCache, text,
                   wakeAt, fileOpen, response, err, lookup, gateCount, calls>>

\* lines 198-204 raising sqlite3.Error before the commit
CacheWriteError(r) ==
    /\ pc[r] = "store"
    /\ Raise(r, "StorageError")
    /\ UNCHANGED <<now, lastFetchTs, fetchLock, transcripts, files, vid,
                   noCache, wakeAt, lookup, gateCount, writeCount, calls>>

\* lines 141, 207-213: the text is written and the file closed, return
\* cached=False
ReturnFresh(r) ==
    /\ pc[r] = "sink"
    /\ fileOpen[r]
    /\ files' = WrittenFiles(vid[r], Content(text[r]))
    /\ Return(r, text[r], FALSE)
    /\ UNCHANGED <<now, lastFetchTs, fetchLock, transcripts, vid, noCache,
                   wakeAt, err, lookup, gateCount, writeCount, calls>>

\* _write_transcript_file raising OSError at line 185 or line 206: either
\* open() fails and the file is left as it was, or the file was opened and
\* truncated and the write fails after only a part of the text went out
WriteFileError(r) ==
    /\ pc[r] \in {"hit", "sink"}
    /\ IF fileOpen[r]
       THEN \E n \in 0..(Len(Content(text[r])) - 1) :
                files' = WrittenFiles(vid[r], SubSeq(Content(text[r]), 1, n))
       ELSE UNCHANGED files
    /\ Raise(r, "OSError")
    /\ UNCHANGED <<now, lastFetchTs, fetchLock, transcripts, vid, noCache,
                   wakeAt, lookup, gateCount, writeCount, calls>>

\* the wall clock advances: up to MaxTime while some request is still to be
\* served, and beyond it as long as a time.sleep(wait) has not ended
Tick ==
    /\ \/ /\ now + TickSeconds <= MaxTime
          /\ \E r \in Reqs : pc[r] \notin {"done", "failed"}
       \/ \E r \in Reqs : pc[r] = "wait" /\ now < wakeAt[r]
    /\ now' = now + TickSeconds
    /\ UNCHANGED <<fileOpen, lastFetchTs, fetchLock, transcripts, files, pc, vid,
                   noCache, text, wakeAt, fileOpen, response, err, lookup,
                   gateCount, writeCount, calls>>

Next ==
    \/ \E r \in Reqs, v \in VideoIdInputs, u \in Urls, nc \in BOOLEAN :
           Start(r, v, u, nc)
    \/ \E r \in Reqs : CacheLookup(r)
    \/ \E r \in Reqs : CacheLookupError(r)
    \/ \E r \in Reqs : OpenFile(r)
    \/ \E r \in Reqs : ReturnCached(r)
    \/ \E r \in Reqs : Acquire(r)
    \/ \E r \in Reqs : BeginCall(r)
    \/ \E r \in Reqs, t \in Texts : UpstreamOk(r, t)
    \/ \E r \in Reqs : UpstreamFail(r)
    \/ \E r \in Reqs : CacheWrite(r)
    \/ \E r \in Reqs : CacheWriteError(r)
    \/ \E r \in Reqs : ReturnFresh(r)
    \/ \E r \in Reqs : WriteFileError(r)
    \/ Tick

Spec == Init /\ [][Next]_vars

\* the steps of the thread serving request r once the request has arrived
Step(r) ==
    \/ CacheLookup(r)
    \/ CacheLookupError(r)
    \/ OpenFile(r)
    \/ ReturnCached(r)
    \/ Acquire(r)
    \/ BeginCall(r)
    \/ \E t \in Texts : UpstreamOk(r, t)
    \/ UpstreamFail(r)
    \/ CacheWrite(r)
    \/ CacheWriteError(r)
    \/ ReturnFresh(r)
    \/ WriteFileError(r)

\* Fair scheduling: a thread that can take a step eventually takes one (the
\* upstream call included: it returns or raises), and time passes.
Fairness == WF_vars(Tick) /\ \A r \in Reqs : WF_vars(Step(r))

FairSpec == Spec /\ Fairness

(* ------------------------------ properties ----------------------------- *)

Idx == 1..Len(calls)
InGate(r) == pc[r] \in {"wait", "upstream"}
Quiescent == \A r \in Reqs : pc[r] \in {"idle", "done", "failed"}

\* index in calls of the last successful upstream call for video k (0: none)
LastOkCall(k) ==
    LET ok == {i \in Idx : calls[i].video_id = k /\ calls[i].status = "ok"}
    IN  IF ok = {} THEN 0 ELSE CHOOSE i \in ok : \A j \in ok : j <= i

\* C1: the start times of any two upstream calls differ by at least
\* MIN_SECONDS_BETWEEN_FETCHES, whether the calls succeed or fail.
C1_ThrottleFloor ==
    \A i, j \in Idx :
        i < j => calls[j].start - calls[i].start >= MIN_SECONDS_BETWEEN_FETCHES

\* C2: at most one request is inside "throttle wait + upstream call", it is
\* the holder of _fetch_lock, and every other request that needs a fetch is
\* outside that section, waiting for the lock.
C2_MutualExclusion ==
    /\ Cardinality({r \in Reqs : InGate(r)}) <= 1
    /\ \A r \in Reqs : InGate(r) <=> fetchLock = r
    /\ \A r \in Reqs : pc[r] = "gate" => fetchLock # r

C2_Witness ==
    \E r, q \in Reqs :
        /\ r # q
        /\ pc[r] = "upstream"
        /\ pc[q] = "gate"
        /\ vid[r] # vid[q]

C3_State ==
    \A r \in Reqs :
        lookup[r] = "hit" =>
            /\ ~noCache[r]
            /\ pc[r] \in {"hit", "done", "failed"}
            /\ gateCount[r] = 0
            /\ fetchLock # r
            /\ CallOf(r) = 0
            /\ writeCount[r] = 0
            /\ pc[r] = "done" => response[r].status = 200 /\ response[r].cached

C3_Step ==
    \A r \in Reqs :
        /\ (pc[r] = "lookup" /\ transcripts[vid[r]].present /\ pc'[r] # "failed")
               => /\ pc'[r] \in {"lookup", "hit"}
                  /\ pc'[r] = "hit" => text'[r] = transcripts[vid[r]].text
        /\ (pc[r] = "hit" /\ pc'[r] = "hit") => text'[r] = text[r]
        /\ (pc[r] = "hit" /\ pc'[r] = "done")
               => response'[r] = [status |-> 200, video_id |-> vid[r],
                                  text |-> text[r], cached |-> TRUE]
        /\ (pc'[r] # pc[r] /\ lookup'[r] = "hit")
               => /\ transcripts' = transcripts
                  /\ lastFetchTs' = lastFetchTs
                  /\ fetchLock' = fetchLock
                  /\ calls' = calls

\* C3: a request with no_cache false that finds a row for its video at the
\* lookup returns the stored text with cached=True, and never acquires
\* _fetch_lock, never calls the upstream, and none of its steps changes the
\* cache row or _last_fetch_ts.
C3_FastPath == []C3_State /\ [][C3_Step]_vars

C3_Witness ==
    \E r, q \in Reqs :
        /\ lookup[r] = "hit"
        /\ pc[r] = "done"
        /\ response[r].cached
        /\ q # r
        /\ writeCount[q] = 1
        /\ vid[q] = vid[r]
        /\ response[r].text = calls[CallOf(q)].text

C4_State ==
    \A r \in Reqs :
        /\ err[r] = "FetchError" => pc[r] = "failed" /\ writeCount[r] = 0
        /\ lookup[r] = "miss" =>
               /\ pc[r] \in {"gate", "wait", "upstream", "store", "sink",
                             "done", "failed"}
               /\ pc[r] # "gate" => gateCount[r] = 1
               /\ pc[r] \notin {"gate", "wait"} => CallOf(r) # 0

C4_Step ==
    \A r \in Reqs :
        /\ (pc[r] = "upstream" /\ pc'[r] = "failed") => transcripts' = transcripts
        /\ (pc[r] = "lookup" /\ ~transcripts[vid[r]].present
              /\ pc'[r] \notin {"lookup", "failed"})
               => pc'[r] = "gate" /\ lookup'[r] = "miss"

\* C4: a request whose upstream call fails neither creates nor modifies the
\* cache row of its video, and a request that then finds no row for the video
\* goes through the gate and calls the upstream again.
C4_ErrorNonPollution == []C4_State /\ [][C4_Step]_vars

C4_Witness ==
    \E i, j \in Idx :
        /\ i < j
        /\ calls[i].video_id = calls[j].video_id
        /\ calls[i].status = "failed"
        /\ err[calls[i].req] = "FetchError"
        /\ lookup[calls[j].req] = "miss"
        /\ calls[j].status = "ok"
        /\ ~transcripts[calls[j].video_id].present

C5_State ==
    \A r \in Reqs :
        noCache[r] =>
            /\ lookup[r] = "skipped"
            /\ pc[r] \in {"gate", "wait", "upstream", "store", "sink", "done",
                          "failed"}
            /\ pc[r] # "gate" => gateCount[r] = 1
            /\ pc[r] \notin {"gate", "wait"} => CallOf(r) # 0
            /\ pc[r] \in {"store", "sink", "done"}
                   => calls[CallOf(r)].status = "ok"
            /\ pc[r] \in {"sink", "done"} => writeCount[r] = 1
            /\ pc[r] = "done"
                   => response[r] = [status |-> 200, video_id |-> vid[r],
                                     text |-> calls[CallOf(r)].text,
                                     cached |-> FALSE]

C5_Step ==
    \A r \in Reqs :
        (noCache[r] /\ pc[r] = "store" /\ pc'[r] = "sink")
            => /\ transcripts'[vid[r]].present
               /\ transcripts'[vid[r]].text = calls[CallOf(r)].text

\* C5: a request with no_cache true never looks the cache up: it acquires
\* _fetch_lock and calls the upstream even when a row for its video exists;
\* when the call succeeds its cache write replaces the row by the fetched
\* text and its response carries that text with cached=False.
C5_Bypass == []C5_State /\ [][C5_Step]_vars

C5_Witness ==
    \E r, q \in Reqs :
        /\ r # q
        /\ noCache[r]
        /\ pc[r] = "done"
        /\ lookup[q] = "hit"
        /\ pc[q] = "done"
        /\ vid[q] = vid[r]
        /\ CallOf(r) # 0
        /\ response[r].text # response[q].text
        /\ transcripts[vid[r]].text = response[r].text

\* C6: _last_fetch_ts is updated on every upstream call attempt, failed or
\* not: once an attempt is over, the timestamp is not older than its start.
C6_TimestampOnAttempt ==
    \A i \in Idx : calls[i].status # "running" => lastFetchTs >= calls[i].start

\* C7: a request whose cache read fails with a storage error is treated as a
\* miss: it goes on to the gate instead of ending in an error.
C7_ReadFailsOpen ==
    \A r \in Reqs :
        lookup[r] = "error" => ~(pc[r] = "failed" /\ gateCount[r] = 0)

\* C8: a request whose upstream fetch succeeded and whose cache write then
\* fails with a storage error still returns the fetched text, not an error.
C8_WriteFailureKeepsContent ==
    \A r \in Reqs :
        (CallOf(r) # 0 /\ calls[CallOf(r)].status = "ok")
            => ~(pc[r] = "failed" /\ err[r] = "StorageError")

\* C9: a failure of _write_transcript_file never fails the request, on the
\* cache-hit path and on the fresh-fetch path alike.
C9_SinkBestEffort ==
    \A r \in Reqs : ~(pc[r] = "failed" /\ err[r] = "OSError")

\* C10: once no request is in flight (and none lost its cache write to a
\* storage error), the row of video k holds the text of the successful
\* upstream call for k that was made last in gate order.
C10_LastFetchWins ==
    (Quiescent /\ \A r \in Reqs : err[r] # "StorageError") =>
        \A k \in VideoIds :
            LastOkCall(k) # 0 =>
                /\ transcripts[k].present
                /\ transcripts[k].text = calls[LastOkCall(k)].text

C11_Step ==
    /\ \A r \in Reqs :
        /\ (pc[r] = "store" /\ pc'[r] = "sink")
               => /\ transcripts'[vid[r]].present
                  /\ transcripts'[vid[r]].text = text[r]
                  /\ transcripts'[vid[r]].created_at
                         \in ClockReadings(calls[CallOf(r)].end, now)
                  /\ \A k \in VideoIds \ {vid[r]} :
                         transcripts'[k] = transcripts[k]
        /\ (pc[r] = "lookup" /\ pc'[r] = "hit")
               => /\ transcripts[vid[r]].present
                  /\ text'[r] = transcripts[vid[r]].text
        /\ (pc[r] = "lookup" /\ pc'[r] = "gate")
               => ~transcripts[vid[r]].present
    /\ transcripts' # transcripts
           => \E r \in Reqs : pc[r] = "store" /\ pc'[r] = "sink"

\* C11: the cache is a last-write-wins upsert with one row per video: a
\* committed write for k leaves the row of k equal to what was written,
\* whatever the row held, and changes no other row; nothing else changes the
\* table; a lookup returns the whole text of the row as it is at that moment,
\* or finds no row.
C11_UpsertLastWriteWins == [][C11_Step]_vars

C11_Witness ==
    \E r, q \in Reqs :
        /\ r # q
        /\ vid[r] = vid[q]
        /\ writeCount[r] = 1
        /\ noCache[r]
        /\ pc[r] = "done"
        /\ lookup[q] = "hit"
        /\ pc[q] = "done"
        /\ response[q].text = calls[CallOf(r)].text
        /\ response[q].text # EarlierRow.text
        /\ transcripts[vid[r]].created_at > EarlierRow.created_at

\* C12: created_at of a row is the time of the first successful write for its
\* video: once the row exists, later writes leave created_at unchanged.
C12_CreatedAtKept ==
    [][\A k \in VideoIds :
           transcripts[k].present
               => transcripts'[k].created_at = transcripts[k].created_at]_vars

C13_State ==
    \A r \in Reqs :
        err[r] = "ValueError" =>
            /\ pc[r] = "failed"
            /\ response[r].status = 400
            /\ vid[r] = EmptyStr
            /\ lookup[r] = "none"
            /\ gateCount[r] = 0
            /\ fetchLock # r
            /\ CallOf(r) = 0
            /\ writeCount[r] = 0

C13_Step ==
    \A r \in Reqs :
        /\ (pc[r] = "idle" /\ pc'[r] = "failed")
               => /\ err'[r] = "ValueError"
                  /\ UNCHANGED <<transcripts, files, lastFetchTs, fetchLock,
                                 calls>>
        /\ (pc[r] = "idle" /\ pc'[r] \notin {"idle", "failed"})
               => vid'[r] \in VideoIds

\* C13: a request without video_id whose url yields no video id (the
\* ValueError of extract_video_id) ends in an error, and has then read and
\* written no cache row, never acquired _fetch_lock, left _last_fetch_ts as
\* it was and made no upstream call.
C13_InvalidInputTouchesNothing ==
    /\ \A u \in {UrlNone, UrlEmbedBare} : ~ResolveVideoId(EmptyStr, u).ok
    /\ []C13_State
    /\ [][C13_Step]_vars

C13_Witness ==
    \E r, q \in Reqs :
        /\ err[r] = "ValueError"
        /\ q # r
        /\ pc[q] = "upstream"

\* the state of the request state machine a request is in
Stage(r) ==
    CASE pc[r] = "idle" -> "START"
      [] pc[r] \in {"lookup", "hit"} -> "CACHE_LOOKUP"
      [] pc[r] \in {"gate", "wait"} -> "THROTTLE_WAIT"
      [] pc[r] = "upstream" -> "UPSTREAM_FETCH"
      [] pc[r] \in {"store", "sink"} -> "CACHE_WRITE"
      [] pc[r] = "done" ->
             IF response[r].cached THEN "RETURN_CACHED" ELSE "RETURN_FRESH"
      [] pc[r] = "failed" -> "FAIL"

DiagramEdges ==
    {<<"START", "CACHE_LOOKUP">>,
     <<"CACHE_LOOKUP", "RETURN_CACHED">>,
     <<"CACHE_LOOKUP", "THROTTLE_WAIT">>,
     <<"THROTTLE_WAIT", "UPSTREAM_FETCH">>,
     <<"UPSTREAM_FETCH", "CACHE_WRITE">>,
     <<"UPSTREAM_FETCH", "FAIL">>,
     <<"CACHE_WRITE", "RETURN_FRESH">>}

\* the two ways out of START the diagram leaves implicit: no_cache skips the
\* lookup (line 179), and an unresolvable video id fails the request at once
\* (line 176)
StartEdges ==
    {<<"START", "THROTTLE_WAIT">>,
     <<"START", "FAIL">>}

MovesAlong(edges) ==
    \A r \in Reqs :
        Stage(r)' # Stage(r) => <<Stage(r), Stage(r)'>> \in edges

C14_NoRetry ==
    \A r \in Reqs :
        /\ gateCount[r] <= 1
        /\ Cardinality({i \in Idx : calls[i].req = r}) <= 1
        /\ writeCount[r] <= 1
        /\ writeCount[r] = 1 =>
               /\ CallOf(r) # 0
               /\ calls[CallOf(r)].status = "ok"
        /\ CallOf(r) # 0 => gateCount[r] = 1

\* C14: every request moves only along START -> CACHE_LOOKUP ->
\* {RETURN_CACHED | THROTTLE_WAIT -> UPSTREAM_FETCH -> {CACHE_WRITE ->
\* RETURN_FRESH | FAIL}}, and acquires the gate, calls the upstream and
\* writes the cache at most once each, a write only after its own successful
\* fetch. The path is read with the two ways out of START that the handler
\* is specified to have (no_cache to THROTTLE_WAIT, unresolvable id to FAIL),
\* so that only a request failing out of CACHE_LOOKUP or CACHE_WRITE leaves
\* it.
C14_PathNoRetry ==
    []C14_NoRetry /\ [][MovesAlong(DiagramEdges \cup StartEdges)]_vars

\* C15: a cache hit is never delayed by the gate: while another request
\* holds _fetch_lock, a request with no_cache false can take its lookup step
\* and, after a hit, open the transcript file and take its step to the
\* cached=True response at once.
C15_HitNotDelayed ==
    \A r \in Reqs :
        (fetchLock # 0 /\ fetchLock # r) =>
            /\ pc[r] = "lookup" => ENABLED CacheLookup(r)
            /\ (pc[r] = "hit" /\ ~fileOpen[r]) => ENABLED OpenFile(r)
            /\ (pc[r] = "hit" /\ fileOpen[r]) => ENABLED ReturnCached(r)

C15_Witness ==
    \E r, q \in Reqs :
        /\ r # q
        /\ fetchLock = q
        /\ pc[q] = "upstream"
        /\ pc[r] = "hit"
        /\ ~noCache[r]
        /\ vid[r] = vid[q]

\* C16: a request that returns successfully, cached or fresh, has by then
\* forwarded to the transcript file of its video exactly the text it returns:
\* it opened the file and its last step wrote the characters of the returned
\* text from the start of the file.
C16_SinkGetsReturnedText ==
    [][\A r \in Reqs :
           (pc[r] # "done" /\ pc'[r] = "done")
               => /\ response'[r].status = 200
                  /\ response'[r].video_id = vid[r]
                  /\ fileOpen[r]
                  /\ LET sent == Content(response'[r].text)
                         file == files'[_safe_video_filename(vid[r])]
                     IN  /\ file.present
                         /\ Len(file.text) >= Len(sent)
                         /\ SubSeq(file.text, 1, Len(sent)) = sent]_vars

C16_Witness ==
    \E r, q \in Reqs :
        /\ pc[r] = "done"
        /\ response[r].cached
        /\ pc[q] = "done"
        /\ ~response[q].cached
        /\ vid[q] # vid[r]
        /\ files[_safe_video_filename(vid[r])].text = Content(response[r].text)
        /\ files[_safe_video_filename(vid[q])].text = Content(response[q].text)

Finished(r) == pc[r] \in {"done", "failed"}

\* C17: a failed request never poisons the gate: a request that has ended,
\* by a return or by an exception, no longer holds _fetch_lock; under fair
\* scheduling every request that arrived eventually reaches RETURN_CACHED,
\* RETURN_FRESH or FAIL and stays there; and a request that went to the gate
\* (its lookup missed or was skipped) has acquired the lock by the time it
\* ends, so every waiter eventually acquires it.
C17_NoPoisoning ==
    /\ [](\A r \in Reqs : Finished(r) => fetchLock # r)
    /\ [](\A r \in Reqs :
              Finished(r) /\ lookup[r] \in {"miss", "skipped"}
                  => gateCount[r] = 1)
    /\ <>[](\A r \in Reqs : pc[r] = "idle" \/ Finished(r))

C17_Witness ==
    \E r, q \in Reqs :
        /\ err[r] = "FetchError"
        /\ CallOf(q) > CallOf(r)
        /\ calls[CallOf(q)].start = calls[CallOf(r)].end
        /\ Finished(q)
        /\ fetchLock = 0

CallsFor(k) == {i \in Idx : calls[i].video_id = k}

\* C18: there is no single-flight coalescing: a request with no_cache=false
\* whose lookup missed never serves a row stored meanwhile by another
\* request; once its wait is over it calls upstream whatever the cache holds,
\* and when it returns it returns the text of its own upstream call after its
\* own cache write. Two such requests for one key make two upstream calls
\* and two cache writes for that key.
C18_NoCoalescing ==
    /\ \A r \in Reqs :
           lookup[r] = "miss"
               => /\ pc[r] # "hit"
                  /\ (pc[r] = "wait" /\ now >= wakeAt[r]) => ENABLED BeginCall(r)
                  /\ pc[r] = "done"
                         => /\ ~response[r].cached
                            /\ writeCount[r] = 1
                            /\ \E i \in Idx :
                                   /\ calls[i].req = r
                                   /\ calls[i].status = "ok"
                                   /\ calls[i].text = response[r].text
    /\ \A r, q \in Reqs :
           (/\ r # q
            /\ vid[r] = vid[q]
            /\ lookup[r] = "miss" /\ lookup[q] = "miss"
            /\ pc[r] = "done" /\ pc[q] = "done")
               => /\ Cardinality(CallsFor(vid[r])) = 2
                  /\ writeCount[r] + writeCount[q] = 2

C18_Witness ==
    \E r, q \in Reqs :
        /\ r # q
        /\ vid[r] = vid[q]
        /\ ~noCache[r] /\ ~noCache[q]
        /\ lookup[r] = "miss" /\ lookup[q] = "miss"
        /\ pc[r] = "done" /\ pc[q] = "done"
        /\ Cardinality(CallsFor(vid[r])) = 2
        /\ \A i \in CallsFor(vid[r]) : calls[i].status = "ok"
        /\ response[r].text # response[q].text

\* C19: the cache and the transcript files stay consistent: whenever no
\* request is in flight, every key that has both a row and a file has the
\* row's text in the file, for every interleaving of concurrent requests.
\* Stated over the interleavings in which no request failed, so that no
\* write error (C8, C9) accounts for a difference.
C19_CacheFileConsistent ==
    (Quiescent /\ \A r \in Reqs : pc[r] # "failed")
        => \A k \in VideoIds :
               LET row == transcripts[k]
                   file == files[_safe_video_filename(k)]
               IN  (row.present /\ file.present)
                       => file.text = Content(row.text)

OkCalls == {i \in Idx : calls[i].status = "ok"}

\* C20: every upstream call starts at least MIN_SECONDS_BETWEEN_FETCHES
\* after the completion of the most recent successful upstream call before
\* it, and _last_fetch_ts is the completion time of the latest successful
\* call (its initial 0 while there is none).
C20_FloorAfterCompletion ==
    /\ \A i \in OkCalls : \A j \in Idx :
           i < j => calls[j].start >=
                        calls[i].end + MIN_SECONDS_BETWEEN_FETCHES
    /\ lastFetchTs = IF OkCalls = {} THEN 0
                     ELSE calls[CHOOSE i \in OkCalls :
                                    \A j \in OkCalls : j <= i].end

C20_Witness ==
    \E i \in OkCalls : \E j \in Idx :
        /\ i < j
        /\ calls[i].end > calls[i].start
        /\ calls[j].start = calls[i].end + MIN_SECONDS_BETWEEN_FETCHES
        /\ calls[j].status = "ok"
====
